---- MODULE Spec2Model ----
(***************************************************************************)
(* Geolocation fusion engine of Drone-GeoAnalysis-LLMs.                    *)
(*                                                                         *)
(*   src/src/geo/geo_triangulation.py   GeoTriangulation (the engine)      *)
(*   src/src/services/geo_service.py    GeoService (the service layer)     *)
(*                                                                         *)
(*   src/src/geo/geo_correlator.py      GeoCorrelator                      *)
(*   src/src/models/geo_manager.py      GeolocationManager                 *)
(*                                                                         *)
(* The specifications share the variables:                                 *)
(*   Spec      sequential calls on one GeoTriangulation instance           *)
(*   NumSpec   the same under sightings that exercise the arithmetic       *)
(*   SvcSpec   sequential calls on GeoService over the real engine         *)
(*   FaultSpec GeoService over collaborators that may raise                *)
(*   CorrSpec  calls on one GeoCorrelator instance                         *)
(*   ConcSpec  add_observation calls of several request threads,           *)
(*             interleaved statement by statement                          *)
(*                                                                         *)
(* Units: latitude and longitude are in micro-degrees, confidence is in    *)
(* hundredths, bearings and elevations are in whole degrees.               *)
(***************************************************************************)
EXTENDS Integers, Sequences, FiniteSets, TLC

VARIABLES
    observations,   \* GeoTriangulation.observations: target id -> list
    now,            \* the reading time.time() gives
    last,           \* the last call made: operation, arguments, return value
    manager_targets,\* GeolocationManager.targets (its set of keys)
    reference,      \* GeolocationManager.current_reference_image, <<>> if None
    reference_images, \* GeolocationManager.reference_images (its set of keys)
    drone,          \* ParrotAnafiController: connected, is_flying, altitude
                    \* of current_position, and the take_off calls received
    threads         \* per request thread: position inside add_observation

vars == <<observations, now, last, manager_targets, reference, reference_images, drone, threads>>

(***************************************************************************)
(* Bounds.                                                                 *)
(***************************************************************************)
MaxObs == 2        \* longest observation list a direct engine call builds
MaxNow == 1        \* last clock reading
NumThreads == 2    \* request threads of ConcSpec

(***************************************************************************)
(* Inputs.                                                                 *)
(***************************************************************************)
\* values of f"target_{uuid.uuid4().hex[:8]}"
GenIds == {"target_0000000a", "target_0000000b"}
\* ids a caller passes: any string, one shaped like a generated id included
Ids == GenIds

\* Scenario A of the specification: same pose, bearings 0 and 90
PoseA == [latitude |-> 40000000, longitude |-> -74000000, altitude |-> 100]
SightingA1 == [drone_position |-> PoseA, target_bearing |-> 0,
               target_elevation |-> 30, confidence |-> 100]
SightingA2 == [drone_position |-> PoseA, target_bearing |-> 90,
               target_elevation |-> 30, confidence |-> 100]
Sightings == {SightingA1, SightingA2}

(***************************************************************************)
(* GeoTriangulation: pure parts.                                           *)
(***************************************************************************)
\* f"{target_id}_{index}": the decimal index follows the last underscore,
\* so the string determines the pair and the pair the string
ObservationId(target_id, index) == <<target_id, index>>

\* self.observations[target_id] = []
NewBucket(obs, target_id) ==
    [t \in DOMAIN obs \cup {target_id} |->
        IF t = target_id THEN <<>> ELSE obs[t]]

\* if target_id not in self.observations: self.observations[target_id] = []
EnsureBucket(obs, target_id) ==
    IF target_id \notin DOMAIN obs THEN NewBucket(obs, target_id) ELSE obs

\* a slip: the index counted from 1
add_observation_id_from_one(obs, target_id) ==
    ObservationId(target_id, Len(EnsureBucket(obs, target_id)[target_id]) + 1)

\* observation_id, the value add_observation returns
add_observation_id(obs, target_id) ==
    ObservationId(target_id, Len(EnsureBucket(obs, target_id)[target_id]))

\* the record add_observation stores
NewObservation(observation_id, s, ts) ==
    [id |-> observation_id,
     drone_position |-> s.drone_position,
     target_bearing |-> s.target_bearing,
     target_elevation |-> s.target_elevation,
     confidence |-> s.confidence,
     timestamp |-> ts]

\* a slip: the new observation put in front of the list
add_observation_in_front(obs, target_id, s, ts) ==
    LET o1 == EnsureBucket(obs, target_id)
        observation_id == add_observation_id(obs, target_id)
    IN  [o1 EXCEPT ![target_id] =
            <<NewObservation(observation_id, s, ts)>> \o @]

\* the store add_observation leaves
add_observation(obs, target_id, s, ts) ==
    LET o1 == EnsureBucket(obs, target_id)
        observation_id == add_observation_id(obs, target_id)
    IN  [o1 EXCEPT ![target_id] =
            Append(@, NewObservation(observation_id, s, ts))]

NotFound(target_id) == [error |-> <<"no encontrado", target_id>>]
InsufficientData(observation_count) ==
    [error |-> <<"Se requieren al menos 2 observaciones", observation_count>>]
Valid == [valid |-> TRUE]

IsError(result) == "error" \in DOMAIN result
IsNotFound(result) ==
    IsError(result) /\ result.error[1] = "no encontrado"
IsInsufficientData(result) ==
    IsError(result) /\ result.error[1] = "Se requieren al menos 2 observaciones"

\* a slip: an empty list reported like a missing target
validate_observations_empty_missing(obs, target_id) ==
    IF target_id \notin DOMAIN obs \/ Len(obs[target_id]) = 0
    THEN NotFound(target_id)
    ELSE LET observation_count == Len(obs[target_id])
         IN  IF observation_count < 2
             THEN InsufficientData(observation_count)
             ELSE Valid

\* a slip: one observation taken to be enough
validate_observations_one_enough(obs, target_id) ==
    IF target_id \notin DOMAIN obs
    THEN NotFound(target_id)
    ELSE LET observation_count == Len(obs[target_id])
         IN  IF observation_count < 1
             THEN InsufficientData(observation_count)
             ELSE Valid

validate_observations(obs, target_id) ==
    IF target_id \notin DOMAIN obs
    THEN NotFound(target_id)
    ELSE LET observation_count == Len(obs[target_id])
         IN  IF observation_count < 2
             THEN InsufficientData(observation_count)
             ELSE Valid

(***************************************************************************)
(* Arithmetic of the estimate, in fixed point.                             *)
(*   angles           whole degrees                                        *)
(*   sin, cos, tanh   ten-thousandths, from tables of the true values      *)
(*   distances        metres; ground offsets in decimetres                 *)
(*   points           micro-degrees                                        *)
(*   spreads          units of 1e-5 degree   (0.001 degree = 100 units)    *)
(*   meters           centimetres                                          *)
(*   confidence (precision)  hundredths of a percent  (99 = 9900)          *)
(* A float is a record: nan tells a NaN, v is the value otherwise.         *)
(* Inputs are finite numbers with confidences >= 0, so the only division   *)
(* by zero is 0/0 in the normalisation of the weights, which numpy         *)
(* answers with NaN and a warning, not with an exception.                  *)
(***************************************************************************)
NaN == [nan |-> TRUE, v |-> 0]
Num(n) == [nan |-> FALSE, v |-> n]

\* a < b of Python floats: false as soon as one side is NaN
Lt(a, b) == ~a.nan /\ ~b.nan /\ a.v < b.v

\* the builtin min(a, b): b if b < a, else a
py_min(a, b) == IF Lt(b, a) THEN b ELSE a
\* the builtin max(a, b): b if b > a, else a
py_max(a, b) == IF Lt(a, b) THEN b ELSE a

\* np.sin(np.radians(d)) and np.cos(np.radians(d))
Sin4(d) ==
    CASE d = 0 -> 0       [] d = 1 -> 175     [] d = 12 -> 2079
      [] d = 15 -> 2588   [] d = 30 -> 5000   [] d = 45 -> 7071
      [] d = 50 -> 7660   [] d = 90 -> 10000
Cos4(d) ==
    CASE d = 0 -> 10000   [] d = 1 -> 9998    [] d = 12 -> 9781
      [] d = 15 -> 9659   [] d = 30 -> 8660   [] d = 45 -> 7071
      [] d = 50 -> 6428   [] d = 90 -> 0
\* np.cos(np.radians(lat)) of a latitude in micro-degrees
CosLat4(lat) ==
    CASE lat = 40000000 -> 7660
      [] lat = 40416775 -> 7613
      [] lat = 40417775 -> 7613
\* np.tanh(n / 3)
TanhThirds4(n) ==
    CASE n = 0 -> 0       [] n = 1 -> 3215    [] n = 2 -> 5828
      [] n = 3 -> 7616    [] n = 4 -> 8701    [] n = 5 -> 9311
      [] n = 6 -> 9640    [] n = 7 -> 9814    [] OTHER -> 9904

\* np.degrees(1 / earth_radius), earth_radius = 6371000: micro-degrees per
\* metre, in thousandths
MicroDegPerMetre3 == 8993

RECURSIVE SumSeq(_)
SumSeq(s) == IF s = <<>> THEN 0 ELSE Head(s) + SumSeq(Tail(s))

RECURSIVE MaxSeq(_)
MaxSeq(s) ==
    IF Len(s) = 1 THEN Head(s)
    ELSE LET m == MaxSeq(Tail(s)) IN IF m > Head(s) THEN m ELSE Head(s)

RECURSIVE SqrtBetween(_, _, _)
SqrtBetween(x, lo, hi) ==
    IF lo >= hi THEN lo
    ELSE LET mid == (lo + hi + 1) \div 2
         IN  IF mid * mid <= x
             THEN SqrtBetween(x, mid, hi)
             ELSE SqrtBetween(x, lo, mid - 1)
\* the square root, rounded down
Sqrt(x) == SqrtBetween(x, 0, 40000)

\* a slip: the weight of an observation grows with its place in the list
extract_observation_data_by_place(obs_list) ==
    [positions |-> [i \in 1..Len(obs_list) |-> obs_list[i].drone_position],
     bearings |-> [i \in 1..Len(obs_list) |-> obs_list[i].target_bearing],
     elevations |-> [i \in 1..Len(obs_list) |-> obs_list[i].target_elevation],
     weights |-> [i \in 1..Len(obs_list) |-> obs_list[i].confidence * i]]

\* _extract_observation_data: the four columns of the list
extract_observation_data(obs_list) ==
    [positions |-> [i \in 1..Len(obs_list) |-> obs_list[i].drone_position],
     bearings |-> [i \in 1..Len(obs_list) |-> obs_list[i].target_bearing],
     elevations |-> [i \in 1..Len(obs_list) |-> obs_list[i].target_elevation],
     weights |-> [i \in 1..Len(obs_list) |-> obs_list[i].confidence]]

\* a slip: the clamp to 10 km left out
estimate_distance_unclamped(altitude, elevation) ==
    IF elevation > 0
    THEN (altitude * 10000) \div Sin4(elevation)
    ELSE 1000

\* _estimate_distance: altitude / sin(elevation) above the horizon, else
\* 1000, and never more than 10000
estimate_distance(altitude, elevation) ==
    LET distance == IF elevation > 0
                    THEN (altitude * 10000) \div Sin4(elevation)
                    ELSE 1000
    IN  IF 10000 < distance THEN 10000 ELSE distance

\* a slip: sine and cosine of the bearing exchanged
calculate_target_coordinates_swapped(lat, lon, bearing, distance) ==
    LET north == (distance * Sin4(bearing)) \div 1000
        east == (distance * Cos4(bearing)) \div 1000
    IN  [latitude |-> lat + (north * MicroDegPerMetre3) \div 10000,
         longitude |-> lon + (((east * 10000) \div CosLat4(lat))
                                * MicroDegPerMetre3) \div 10000]

\* _calculate_target_coordinates: the planar small-angle projection
calculate_target_coordinates(lat, lon, bearing, distance) ==
    LET north == (distance * Cos4(bearing)) \div 1000
        east == (distance * Sin4(bearing)) \div 1000
    IN  [latitude |-> lat + (north * MicroDegPerMetre3) \div 10000,
         longitude |-> lon + (((east * 10000) \div CosLat4(lat))
                                * MicroDegPerMetre3) \div 10000]

\* _calculate_estimated_points: one point per observation
calculate_estimated_points(observation_data) ==
    [i \in 1..Len(observation_data.positions) |->
        calculate_target_coordinates(
            observation_data.positions[i].latitude,
            observation_data.positions[i].longitude,
            observation_data.bearings[i],
            estimate_distance(observation_data.positions[i].altitude,
                              observation_data.elevations[i]))]

\* weights / np.sum(weights): the fractions weights[i] / sum, NaN for 0 / 0
normalized_weights(weights) ==
    LET total == SumSeq(weights)
    IN  [i \in 1..Len(weights) |->
            IF total = 0 THEN [nan |-> TRUE, num |-> 0, den |-> 1]
            ELSE [nan |-> FALSE, num |-> weights[i], den |-> total]]

\* sum(values[i] * w[i]) / sum(w[i]) for fractions w of one denominator;
\* the products are taken on the offsets from values[1], which gives the
\* same quotient and keeps the products within 32 bits
WeightedMean(values, w) ==
    LET base == values[1]
        total == SumSeq([i \in 1..Len(w) |-> w[i].num])
    IN  base + SumSeq([i \in 1..Len(w) |-> (values[i] - base) * w[i].num])
                    \div total

\* _calculate_weighted_average: np.average with the normalised weights
calculate_weighted_average(estimated_points, weights) ==
    LET w == normalized_weights(weights)
        n == Len(estimated_points)
    IN  IF \E i \in 1..n : w[i].nan
        THEN [latitude |-> NaN, longitude |-> NaN]
        ELSE [latitude |-> Num(WeightedMean(
                    [i \in 1..n |-> estimated_points[i].latitude], w)),
              longitude |-> Num(WeightedMean(
                    [i \in 1..n |-> estimated_points[i].longitude], w))]

\* np.linalg.norm(estimated_points - weighted_position, axis=1)
PointDistances(estimated_points, weighted_position) ==
    [i \in 1..Len(estimated_points) |->
        LET dlat == (estimated_points[i].latitude
                        - weighted_position.latitude.v) \div 10
            dlon == (estimated_points[i].longitude
                        - weighted_position.longitude.v) \div 10
        IN  Sqrt(dlat * dlat + dlon * dlon)]

\* 100 * (1 - avg_distance / 0.001) * np.tanh(num_observations / 3)
RawConfidence(avg_distance, num_observations) ==
    IF avg_distance.nan THEN NaN
    ELSE Num(((100 - avg_distance.v) * TanhThirds4(num_observations))
                \div 100)

\* a slip: the lower clamp left out
clamp_confidence_no_floor(precision_confidence) ==
    py_min(Num(9900), precision_confidence)

\* max(0, min(99, precision_confidence))
clamp_confidence(precision_confidence) ==
    py_max(Num(0), py_min(Num(9900), precision_confidence))

\* _calculate_precision_metrics
calculate_precision_metrics(estimated_points, weighted_position, num_observations) ==
    LET is_nan == weighted_position.latitude.nan
                    \/ weighted_position.longitude.nan
        distances == PointDistances(estimated_points, weighted_position)
        max_distance == IF is_nan THEN NaN ELSE Num(MaxSeq(distances))
        avg_distance ==
            IF is_nan THEN NaN
            ELSE Num(SumSeq(distances) \div Len(distances))
    IN  [meters |-> IF is_nan THEN NaN ELSE Num(avg_distance.v * 111),
         confidence |->
            clamp_confidence(RawConfidence(avg_distance, num_observations)),
         max_deviation_meters |->
            IF is_nan THEN NaN ELSE Num(max_distance.v * 111)]

\* a slip: the time of computation leaks into the latitude
build_result_drifting(target_id, weighted_position, precision_metrics, observation_count, ts) ==
    [target_id |-> target_id,
     position |-> [latitude |-> [weighted_position.latitude EXCEPT
                                    !.v = @ + ts],
                   longitude |-> weighted_position.longitude,
                   altitude |-> 0],
     precision |-> precision_metrics,
     observations_count |-> observation_count,
     timestamp |-> ts]

\* _build_result
build_result(target_id, weighted_position, precision_metrics, observation_count, ts) ==
    [target_id |-> target_id,
     position |-> [latitude |-> weighted_position.latitude,
                   longitude |-> weighted_position.longitude,
                   altitude |-> 0],
     precision |-> precision_metrics,
     observations_count |-> observation_count,
     timestamp |-> ts]

\* calculate_position from the list it has fetched on: the four steps and
\* the result
fuse_observations(obs_list, target_id, ts) ==
    LET observation_data == extract_observation_data(obs_list)
        estimated_points == calculate_estimated_points(observation_data)
        weighted_position ==
            calculate_weighted_average(estimated_points,
                                       observation_data.weights)
        precision_metrics ==
            calculate_precision_metrics(estimated_points, weighted_position,
                                        Len(obs_list))
    IN  build_result(target_id, weighted_position, precision_metrics,
                     Len(obs_list), ts)

calculate_position(obs, target_id, ts) ==
    LET validation_result == validate_observations(obs, target_id)
    IN  IF IsError(validation_result)
        THEN validation_result
        ELSE fuse_observations(obs[target_id], target_id, ts)

reset_target_result(obs, target_id) == target_id \in DOMAIN obs

\* a slip: the list emptied, the key kept
reset_target_keeps_key(obs, target_id) ==
    IF target_id \in DOMAIN obs
    THEN [obs EXCEPT ![target_id] = <<>>]
    ELSE obs

reset_target(obs, target_id) ==
    IF target_id \in DOMAIN obs
    THEN [t \in DOMAIN obs \ {target_id} |-> obs[t]]
    ELSE obs

\* list(self.observations.keys()): the keys of a dict are pairwise distinct
get_all_targets(obs) == DOMAIN obs

\* create_target with uuid4().hex[:8] coming out as the hex of target_id
create_target(obs, target_id) == NewBucket(obs, target_id)

(***************************************************************************)
(* Sequential calls on the engine.                                         *)
(***************************************************************************)
NoThreads == [th \in 1..NumThreads |-> [pc |-> "idle"]]

Init ==
    /\ observations = <<>>
    /\ now = 0
    /\ last = [op |-> "init", target_id |-> "", ret |-> FALSE]
    /\ manager_targets = {}
    /\ reference = <<>>
    /\ reference_images = {}
    /\ drone = [connected |-> FALSE, is_flying |-> FALSE, altitude |-> 0,
                take_off_calls |-> 0]
    /\ threads = NoThreads

Tick ==
    /\ now < MaxNow
    /\ now' = now + 1
    /\ UNCHANGED <<observations, last, manager_targets, reference, reference_images, drone, threads>>

AddObservation(target_id, s) ==
    /\ target_id \in DOMAIN observations =>
            Len(observations[target_id]) < MaxObs
    /\ observations' = add_observation(observations, target_id, s, now)
    /\ last' = [op |-> "add_observation", target_id |-> target_id,
                sighting |-> s,
                ret |-> add_observation_id(observations, target_id)]
    /\ UNCHANGED <<now, manager_targets, reference, reference_images, drone, threads>>

\* self.observations after calculate_position: the method and its helpers
\* only read the dict and build new lists and arrays from it
calculate_position_store_consuming(obs, target_id) ==
    IF IsError(validate_observations(obs, target_id))
    THEN obs
    ELSE [obs EXCEPT ![target_id] = <<>>]

calculate_position_store(obs, target_id) == obs

CalculatePosition(target_id) ==
    /\ observations' = calculate_position_store(observations, target_id)
    /\ last' = [op |-> "calculate_position", target_id |-> target_id,
                ret |-> calculate_position(observations, target_id, now)]
    /\ UNCHANGED <<now, manager_targets, reference, reference_images, drone, threads>>

ResetTarget(target_id) ==
    /\ observations' = reset_target(observations, target_id)
    /\ last' = [op |-> "reset_target", target_id |-> target_id,
                ret |-> reset_target_result(observations, target_id)]
    /\ UNCHANGED <<now, manager_targets, reference, reference_images, drone, threads>>

CreateTarget ==
    \E target_id \in GenIds :
        /\ observations' = create_target(observations, target_id)
        /\ last' = [op |-> "create_target", target_id |-> target_id,
                    ret |-> target_id]
        /\ UNCHANGED <<now, manager_targets, reference, reference_images, drone, threads>>

Next ==
    \/ Tick
    \/ \E target_id \in Ids, s \in Sightings : AddObservation(target_id, s)
    \/ \E target_id \in Ids : CalculatePosition(target_id)
    \/ \E target_id \in Ids : ResetTarget(target_id)
    \/ CreateTarget

Spec == Init /\ [][Next]_vars

(***************************************************************************)
(* GeoService.get_targets_status over the real engine: one entry per key   *)
(* of the store. last_observation is <<timestamp>>, or <<>> for None.      *)
(***************************************************************************)
\* a slip: the comparison of can_calculate turned round
targets_status_entry_turned(obs, target_id) ==
    LET obs_list == IF target_id \in DOMAIN obs THEN obs[target_id] ELSE <<>>
    IN  [target_id |-> target_id,
         observations_count |-> Len(obs_list),
         can_calculate |-> Len(obs_list) <= 2,
         last_observation |->
            IF obs_list # <<>>
            THEN <<obs_list[Len(obs_list)].timestamp>> ELSE <<>>]

\* a slip: the time of the first observation instead of the last
targets_status_entry_first(obs, target_id) ==
    LET obs_list == IF target_id \in DOMAIN obs THEN obs[target_id] ELSE <<>>
    IN  [target_id |-> target_id,
         observations_count |-> Len(obs_list),
         can_calculate |-> Len(obs_list) >= 2,
         last_observation |->
            IF obs_list # <<>> THEN <<obs_list[1].timestamp>> ELSE <<>>]

targets_status_entry(obs, target_id) ==
    LET obs_list == IF target_id \in DOMAIN obs THEN obs[target_id] ELSE <<>>
    IN  [target_id |-> target_id,
         observations_count |-> Len(obs_list),
         can_calculate |-> Len(obs_list) >= 2,
         last_observation |->
            IF obs_list # <<>>
            THEN <<obs_list[Len(obs_list)].timestamp>> ELSE <<>>]

get_targets_status(obs) ==
    [success |-> TRUE,
     targets |-> {targets_status_entry(obs, t) : t \in get_all_targets(obs)},
     total_targets |-> Cardinality(get_all_targets(obs))]

(***************************************************************************)
(* Claims about the engine under sequential calls (Spec).                  *)
(***************************************************************************)
LenOrZero(obs, t) == IF t \in DOMAIN obs THEN Len(obs[t]) ELSE 0

\* C1: calculate_position returns an estimate only for a target that holds
\* at least 2 observations, and the observations_count of the estimate is
\* the length of the target's list.
C1_EstimateNeedsTwo ==
    (last.op = "calculate_position" /\ ~IsError(last.ret)) =>
        /\ last.target_id \in get_all_targets(observations)
        /\ Len(observations[last.target_id]) >= 2
        /\ last.ret.observations_count = Len(observations[last.target_id])
        /\ last.ret.target_id = last.target_id

C1_Witness ==
    /\ last.op = "calculate_position"
    /\ ~IsError(last.ret)
    /\ last.ret.observations_count = 2

\* C2 as claimed: NotFound whenever the target has no observations (never
\* seen, reset, or created and still empty), InsufficientData with exactly
\* one observation, and the two errors differ.
C2_Original ==
    last.op = "calculate_position" =>
        /\ LenOrZero(observations, last.target_id) = 0 =>
                (IsNotFound(last.ret) /\ ~IsInsufficientData(last.ret))
        /\ LenOrZero(observations, last.target_id) = 1 =>
                (IsInsufficientData(last.ret) /\ ~IsNotFound(last.ret))

\* C2 amended: NotFound exactly when the id is not a current target (never
\* seen or reset); InsufficientData, carrying the count, when the target
\* exists with zero or one observation, a target made by create_target
\* that is still empty included; the two errors differ.
C2_ErrorKinds ==
    last.op = "calculate_position" =>
        /\ last.target_id \notin get_all_targets(observations) =>
                (IsNotFound(last.ret) /\ ~IsInsufficientData(last.ret))
        /\ (/\ last.target_id \in get_all_targets(observations)
            /\ Len(observations[last.target_id]) < 2) =>
                /\ IsInsufficientData(last.ret)
                /\ ~IsNotFound(last.ret)
                /\ last.ret.error[2] = Len(observations[last.target_id])
        /\ IsError(last.ret) =>
                LenOrZero(observations, last.target_id) < 2

C2_Witness ==
    /\ last.op = "calculate_position"
    /\ last.target_id \in get_all_targets(observations)
    /\ observations[last.target_id] = <<>>
    /\ IsInsufficientData(last.ret)

\* C5: add_observation creates the target if absent, appends exactly one
\* observation with the supplied pose, bearing, elevation and confidence at
\* the end of the target's list, and leaves every other target alone.
C5_AddObservationEffect ==
    [][\A t \in Ids, s \in Sightings :
        AddObservation(t, s) =>
            LET before == IF t \in DOMAIN observations
                          THEN observations[t] ELSE <<>>
                after == observations'[t]
            IN  /\ t \in get_all_targets(observations')
                /\ Len(after) = Len(before) + 1
                /\ SubSeq(after, 1, Len(before)) = before
                /\ after[Len(after)].drone_position = s.drone_position
                /\ after[Len(after)].target_bearing = s.target_bearing
                /\ after[Len(after)].target_elevation = s.target_elevation
                /\ after[Len(after)].confidence = s.confidence
                /\ get_all_targets(observations') =
                        get_all_targets(observations) \cup {t}
                /\ \A u \in get_all_targets(observations) \ {t} :
                        observations'[u] = observations[u]]_vars

C5_Witness ==
    /\ last.op = "add_observation"
    /\ Len(observations[last.target_id]) = 2
    /\ observations[last.target_id][1].target_bearing
            # last.sighting.target_bearing
    /\ observations[last.target_id][2].target_bearing
            = last.sighting.target_bearing
    /\ \E u \in get_all_targets(observations) \ {last.target_id} :
            observations[u] # <<>>

\* C6: inside one target's list the observation ids are pairwise distinct,
\* the i-th observation (0-based) of target T has the id '<T>_<i>', and
\* that is the id add_observation returned when it stored the observation.
C6_ObservationIds ==
    /\ \A t \in get_all_targets(observations) :
            /\ \A i \in 1..Len(observations[t]) :
                    observations[t][i].id = ObservationId(t, i - 1)
            /\ \A i, j \in 1..Len(observations[t]) :
                    i # j => observations[t][i].id # observations[t][j].id
    /\ last.op = "add_observation" =>
            /\ last.ret = observations[last.target_id]
                            [Len(observations[last.target_id])].id
            /\ last.ret =
                ObservationId(last.target_id,
                              Len(observations[last.target_id]) - 1)

C6_Witness ==
    /\ last.op = "add_observation"
    /\ Len(observations[last.target_id]) = 2
    /\ last.ret = ObservationId(last.target_id, 1)
    /\ \E u \in get_all_targets(observations) \ {last.target_id} :
            Len(observations[u]) = 2

\* C7: reset_target on an id that is not a target returns false and leaves
\* the store as it was; on a target it returns true, removes the id with
\* all its observations and leaves every other target alone.
C7_ResetTargetEffect ==
    [][\A t \in Ids :
        ResetTarget(t) =>
            IF t \notin get_all_targets(observations)
            THEN last'.ret = FALSE /\ observations' = observations
            ELSE /\ last'.ret = TRUE
                 /\ t \notin get_all_targets(observations')
                 /\ get_all_targets(observations') =
                        get_all_targets(observations) \ {t}
                 /\ \A u \in get_all_targets(observations') :
                        observations'[u] = observations[u]]_vars

C7_Witness ==
    /\ last.op = "reset_target"
    /\ last.ret = TRUE
    /\ last.target_id \notin get_all_targets(observations)
    /\ \E u \in get_all_targets(observations) : observations[u] # <<>>

\* C8: right after create_target returns T, T is among get_all_targets, T
\* has no observations, and the status listing has observations_count 0
\* and can_calculate false for T.
C8_CreatedTargetIsEmpty ==
    last.op = "create_target" =>
        /\ last.ret \in get_all_targets(observations)
        /\ observations[last.ret] = <<>>
        /\ \E e \in get_targets_status(observations).targets :
                e.target_id = last.ret
        /\ \A e \in get_targets_status(observations).targets :
                e.target_id = last.ret =>
                    /\ e.observations_count = 0
                    /\ e.can_calculate = FALSE

C8_Witness ==
    /\ last.op = "create_target"
    /\ observations[last.ret] = <<>>
    /\ \E u \in get_all_targets(observations) \ {last.ret} :
            Len(observations[u]) = 2

\* C9: the id create_target returns was not a target before the call, and
\* the list of every target that existed before the call is unchanged.
C9_CreateTargetIsFresh ==
    [][CreateTarget =>
        /\ last'.ret \notin get_all_targets(observations)
        /\ \A u \in get_all_targets(observations) :
                /\ u \in get_all_targets(observations')
                /\ observations'[u] = observations[u]]_vars

\* C10: a target stays a target and its observation count does not
\* decrease across any call other than reset_target of that same id.
C10_OnlyResetDestroys ==
    [][\A u \in get_all_targets(observations) :
        ~ResetTarget(u) =>
            /\ u \in get_all_targets(observations')
            /\ Len(observations'[u]) >= Len(observations[u])]_vars

(***************************************************************************)
(* GeoService over the real engine. main.py always builds the service      *)
(* with a GeoTriangulation instance, so is_mock_triangulation is false.    *)
(***************************************************************************)
\* _get_mock_drone_position
MockDronePosition ==
    [latitude |-> 40416775, longitude |-> -3703790, altitude |-> 50]

\* the two sightings of _add_automatic_observations
AutomaticSighting1 ==
    [drone_position |->
        [latitude |-> 40416775, longitude |-> -3703790, altitude |-> 50],
     target_bearing |-> 45, target_elevation |-> 15, confidence |-> 90]
AutomaticSighting2 ==
    [drone_position |->
        [latitude |-> 40417775, longitude |-> -3702790, altitude |-> 60],
     target_bearing |-> 50, target_elevation |-> 12, confidence |-> 85]

\* request bodies of 'add observation': optional fields may be missing
ObservationParams ==
    {[target_id |-> t, target_bearing |-> 90] : t \in Ids}
    \cup {[target_id |-> t, target_bearing |-> 90,
           target_elevation |-> 30, confidence |-> 50] : t \in Ids}
    \cup {[target_id |-> "target_0000000a"]}
    \cup {[target_bearing |-> 90]}

\* dict.get(key, default)
Get(params, key, default) ==
    IF key \in DOMAIN params THEN params[key] ELSE default

\* a slip: a confidence left out counted as 0.5
ParamsSighting_half(params) ==
    [drone_position |-> MockDronePosition,
     target_bearing |-> params.target_bearing,
     target_elevation |-> Get(params, "target_elevation", 0),
     confidence |-> Get(params, "confidence", 50)]

\* the sighting GeoService.add_observation hands to the engine
ParamsSighting(params) ==
    [drone_position |-> MockDronePosition,
     target_bearing |-> params.target_bearing,
     target_elevation |-> Get(params, "target_elevation", 0),
     confidence |-> Get(params, "confidence", 100)]

\* params['target_id'] or params['target_bearing'] raises KeyError
ParamsComplete(params) ==
    {"target_id", "target_bearing"} \subseteq DOMAIN params

\* a slip: the second automatic observation left out
add_automatic_observations_once(obs, target_id, ts1, ts2) ==
    add_observation(obs, target_id, AutomaticSighting1, ts1)

add_automatic_observations(obs, target_id, ts1, ts2) ==
    add_observation(add_observation(obs, target_id, AutomaticSighting1, ts1),
                    target_id, AutomaticSighting2, ts2)

\* the store _calculate_position_real leaves
calculate_position_real_store(obs, target_id, ts1, ts2) ==
    IF target_id \notin DOMAIN obs \/ Len(Get(obs, target_id, <<>>)) < 2
    THEN add_automatic_observations(obs, target_id, ts1, ts2)
    ELSE obs

\* what _calculate_position_real returns
calculate_position_real(obs, target_id, ts1, ts2) ==
    LET result ==
            calculate_position(
                calculate_position_real_store(obs, target_id, ts1, ts2),
                target_id, ts2)
    IN  IF IsError(result)
        THEN [success |-> FALSE, error |-> result.error]
        ELSE [success |-> TRUE,
              position |-> result.position,
              precision |-> result.precision,
              observations_count |-> result.observations_count,
              timestamp |-> result.timestamp,
              method |-> "real_triangulation"]

\* clock readings a later time.time() of the same call can give
Later(ts) == {n \in {ts, ts + 1} : n <= MaxNow}

SvcCreateTarget ==
    \E target_id \in GenIds :
        /\ observations' = create_target(observations, target_id)
        /\ manager_targets' = manager_targets \cup {target_id}
        /\ last' = [op |-> "svc_create_target", target_id |-> target_id,
                    ret |-> [success |-> TRUE, target_id |-> target_id]]
        /\ UNCHANGED <<now, reference, reference_images, drone, threads>>

SvcAddObservation(params) ==
    /\ ("target_id" \in DOMAIN params
            /\ params.target_id \in DOMAIN observations) =>
                Len(observations[params.target_id]) < MaxObs
    /\ IF ParamsComplete(params)
       THEN LET t == params.target_id
                s == ParamsSighting(params)
                obs1 == add_observation(observations, t, s, now)
                obs_count == Len(Get(obs1, t, <<>>))
            IN  /\ observations' = obs1
                /\ last' = [op |-> "svc_add_observation", target_id |-> t,
                            params |-> params,
                            ret |-> [success |-> TRUE,
                                     observation_id |->
                                        add_observation_id(observations, t),
                                     total_observations |-> obs_count,
                                     can_calculate |-> obs_count >= 2]]
       ELSE /\ observations' = observations
            /\ last' = [op |-> "svc_add_observation", target_id |-> "",
                        params |-> params,
                        ret |-> [success |-> FALSE, error |-> "KeyError"]]
    /\ UNCHANGED <<now, manager_targets, reference, reference_images, drone, threads>>

SvcCalculatePosition(target_id) ==
    /\ IF target_id = ""
       THEN /\ last' = [op |-> "svc_calculate_position",
                        target_id |-> target_id,
                        ret |-> [success |-> FALSE,
                                 error |-> "ID de objetivo no especificado"]]
            /\ UNCHANGED <<observations, now>>
       ELSE \E ts2 \in Later(now) :
            /\ observations' =
                calculate_position_real_store(observations, target_id,
                                              now, ts2)
            /\ last' = [op |-> "svc_calculate_position",
                        target_id |-> target_id,
                        ret |-> calculate_position_real(observations,
                                        target_id, now, ts2)]
            /\ now' = ts2
    /\ UNCHANGED <<manager_targets, reference, reference_images, drone, threads>>

SvcGetTargetsStatus ==
    /\ last' = [op |-> "svc_get_targets_status", target_id |-> "",
                ret |-> get_targets_status(observations)]
    /\ UNCHANGED <<observations, now, manager_targets, reference, reference_images, drone, threads>>

\* JSON bodies of POST /observation/add: a key is absent or null alike
ObservationBodies ==
    ObservationParams \cup {[target_id |-> "", target_bearing |-> 90]}

\* _extract_observation_params: the two optional fields get their
\* defaults, the two required ones stay None (absent) when missing
extract_observation_params(data) ==
    [target_elevation |-> Get(data, "target_elevation", 0),
     confidence |-> Get(data, "confidence", 100)]
    @@ [k \in DOMAIN data \cap {"target_id", "target_bearing"} |-> data[k]]

\* not params['target_id'] or params['target_bearing'] is None
ParamsRefused(observation_params) ==
    \/ Get(observation_params, "target_id", "") = ""
    \/ "target_bearing" \notin DOMAIN observation_params

\* the route add_observation of geo_controller over GeoService
CtlAddObservation(data) ==
    LET observation_params == extract_observation_params(data)
    IN  /\ ~ParamsRefused(observation_params) =>
                (observation_params.target_id \in DOMAIN observations =>
                    Len(observations[observation_params.target_id]) < MaxObs)
        /\ IF ParamsRefused(observation_params)
           THEN /\ observations' = observations
                /\ last' = [op |-> "ctl_add_observation", target_id |-> "",
                            params |-> data,
                            ret |-> [success |-> FALSE,
                                     error |-> "target_id y target_bearing son requeridos"]]
           ELSE LET t == observation_params.target_id
                    s == ParamsSighting(observation_params)
                    obs1 == add_observation(observations, t, s, now)
                    obs_count == Len(Get(obs1, t, <<>>))
                IN  /\ observations' = obs1
                    /\ last' = [op |-> "ctl_add_observation", target_id |-> t,
                                params |-> data,
                                ret |-> [success |-> TRUE,
                                         observation_id |->
                                            add_observation_id(observations, t),
                                         total_observations |-> obs_count,
                                         can_calculate |-> obs_count >= 2]]
        /\ UNCHANGED <<now, manager_targets, reference, reference_images, drone, threads>>

SvcNext ==
    \/ Tick
    \/ SvcCreateTarget
    \/ \E params \in ObservationParams : SvcAddObservation(params)
    \/ \E target_id \in Ids \cup {""} : SvcCalculatePosition(target_id)
    \/ SvcGetTargetsStatus

SvcSpec == Init /\ [][SvcNext]_vars

\* the requests as they enter: through the route of the controller or
\* straight at the service
CtlNext ==
    \/ SvcCreateTarget
    \/ \E params \in ObservationParams : SvcAddObservation(params)
    \/ \E data \in ObservationBodies : CtlAddObservation(data)

CtlSpec == Init /\ [][CtlNext]_vars

(***************************************************************************)
(* Claims about the service layer (SvcSpec).                               *)
(***************************************************************************)
\* C3 as claimed: for a target with zero or one observation the service's
\* calculate position returns an error result and adds no observation.
C3_Original ==
    [][\A t \in Ids :
        (SvcCalculatePosition(t) /\ LenOrZero(observations, t) < 2) =>
            (last'.ret.success = FALSE /\ observations' = observations)]_vars

\* C3 amended: only for a target that already holds 2 or more observations
\* does the service hand the call through and add nothing; for a non-empty
\* id with zero or one observation it first appends the two automatic
\* observations to that target, creating it if absent, and then returns
\* the estimate the engine computes over the 2 or 3 observations; no other
\* target changes; an empty id is refused and nothing is added.
C3_ServiceCalculatePosition ==
    [][\A t \in Ids \cup {""} :
        SvcCalculatePosition(t) =>
            LET before == IF t \in DOMAIN observations
                          THEN observations[t] ELSE <<>>
            IN  IF t = ""
                THEN last'.ret.success = FALSE /\ observations' = observations
                ELSE
                 /\ last'.ret.success = TRUE
                 /\ last'.ret.observations_count = Len(observations'[t])
                 /\ get_all_targets(observations') =
                        get_all_targets(observations) \cup {t}
                 /\ \A u \in get_all_targets(observations) \ {t} :
                        observations'[u] = observations[u]
                 /\ IF Len(before) >= 2
                    THEN observations' = observations
                    ELSE /\ Len(observations'[t]) = Len(before) + 2
                         /\ SubSeq(observations'[t], 1, Len(before)) = before
                         /\ \E ts1, ts2 \in 0..MaxNow :
                              /\ observations'[t][Len(before) + 1] =
                                   NewObservation(
                                     ObservationId(t, Len(before)),
                                     AutomaticSighting1, ts1)
                              /\ observations'[t][Len(before) + 2] =
                                   NewObservation(
                                     ObservationId(t, Len(before) + 1),
                                     AutomaticSighting2, ts2)]_vars

C3_Witness ==
    /\ last.op = "svc_calculate_position"
    /\ last.ret.success = TRUE
    /\ last.ret.observations_count = 3
    /\ observations[last.target_id][1].drone_position = MockDronePosition
    /\ observations[last.target_id][1].target_elevation = 30
    /\ observations[last.target_id][3].target_bearing = 50

(***************************************************************************)
(* add_observation called from several request threads (waitress serves    *)
(* each request on a worker thread; the engine takes no lock). A thread    *)
(* runs one statement of add_observation per step:                         *)
(*   test    if target_id not in self.observations                         *)
(*   create  self.observations[target_id] = []                             *)
(*   len     observation_id = f"{target_id}_{len(...)}"                    *)
(*   append  self.observations[target_id].append({...})                    *)
(*   return  return observation_id                                         *)
(***************************************************************************)
Threads == 1..NumThreads

Call(th, target_id, s) ==
    /\ threads[th].pc = "idle"
    /\ threads' = [threads EXCEPT ![th] =
            [pc |-> "test", target_id |-> target_id, sighting |-> s]]
    /\ UNCHANGED <<observations, now, last, manager_targets, reference, reference_images, drone>>

StmtTest(th) ==
    /\ threads[th].pc = "test"
    /\ threads' = [threads EXCEPT ![th].pc =
            IF threads[th].target_id \notin DOMAIN observations
            THEN "create" ELSE "len"]
    /\ UNCHANGED <<observations, now, last, manager_targets, reference, reference_images, drone>>

StmtCreate(th) ==
    /\ threads[th].pc = "create"
    /\ observations' = NewBucket(observations, threads[th].target_id)
    /\ threads' = [threads EXCEPT ![th].pc = "len"]
    /\ UNCHANGED <<now, last, manager_targets, reference, reference_images, drone>>

StmtLen(th) ==
    /\ threads[th].pc = "len"
    /\ threads[th].target_id \in DOMAIN observations
    /\ threads' = [threads EXCEPT ![th] =
            [pc |-> "append",
             target_id |-> threads[th].target_id,
             sighting |-> threads[th].sighting,
             observation_id |->
                ObservationId(threads[th].target_id,
                              Len(observations[threads[th].target_id]))]]
    /\ UNCHANGED <<observations, now, last, manager_targets, reference, reference_images, drone>>

StmtAppend(th) ==
    /\ threads[th].pc = "append"
    /\ threads[th].target_id \in DOMAIN observations
    /\ LET o == NewObservation(threads[th].observation_id,
                               threads[th].sighting, now)
       IN  /\ observations' =
                [observations EXCEPT ![threads[th].target_id] = Append(@, o)]
           /\ threads' = [threads EXCEPT ![th] =
                [pc |-> "return",
                 target_id |-> threads[th].target_id,
                 sighting |-> threads[th].sighting,
                 observation_id |-> threads[th].observation_id,
                 stored |-> o]]
    /\ UNCHANGED <<now, last, manager_targets, reference, reference_images, drone>>

StmtReturn(th) ==
    /\ threads[th].pc = "return"
    /\ threads' = [threads EXCEPT ![th] =
            [pc |-> "done",
             target_id |-> threads[th].target_id,
             sighting |-> threads[th].sighting,
             observation_id |-> threads[th].observation_id,
             stored |-> threads[th].stored,
             ret |-> threads[th].observation_id]]
    /\ UNCHANGED <<observations, now, last, manager_targets, reference, reference_images, drone>>

ConcNext ==
    \/ Tick
    \/ \E th \in Threads, target_id \in Ids, s \in Sightings :
            Call(th, target_id, s)
    \/ \E th \in Threads : StmtTest(th)
    \/ \E th \in Threads : StmtCreate(th)
    \/ \E th \in Threads : StmtLen(th)
    \/ \E th \in Threads : StmtAppend(th)
    \/ \E th \in Threads : StmtReturn(th)

ConcSpec == Init /\ [][ConcNext]_vars

(***************************************************************************)
(* Claims about concurrent calls (ConcSpec).                               *)
(***************************************************************************)
\* C4: when two add_observation calls on the same target have both
\* returned, the target's list holds both observations and the two
\* returned observation ids differ.
C4_NoLostUpdate ==
    \A a, b \in Threads :
        (/\ a # b
         /\ threads[a].pc = "done"
         /\ threads[b].pc = "done"
         /\ threads[a].target_id = threads[b].target_id) =>
            LET list == observations[threads[a].target_id]
            IN  /\ \E i, j \in 1..Len(list) :
                        /\ i # j
                        /\ list[i] = threads[a].stored
                        /\ list[j] = threads[b].stored
                /\ threads[a].ret # threads[b].ret

(***************************************************************************)
(* The engine under sightings that exercise the arithmetic: the horizon    *)
(* and below it, a target far beyond 10 km, unequal and zero confidences.  *)
(* The clock stands still here; none of the numbers reads it.              *)
(***************************************************************************)
PoseHigh == [latitude |-> 40000000, longitude |-> -74000000, altitude |-> 500]
SightingHorizon == [drone_position |-> PoseA, target_bearing |-> 45,
                    target_elevation |-> 0, confidence |-> 50]
SightingBelow == [drone_position |-> PoseA, target_bearing |-> 90,
                  target_elevation |-> -10, confidence |-> 0]
SightingFar == [drone_position |-> PoseHigh, target_bearing |-> 0,
                target_elevation |-> 1, confidence |-> 100]
NumSightings ==
    {SightingA1, SightingA2, SightingHorizon, SightingBelow, SightingFar}

NumNext ==
    \/ \E target_id \in Ids, s \in NumSightings :
            AddObservation(target_id, s)
    \/ \E target_id \in Ids : CalculatePosition(target_id)
    \/ \E target_id \in Ids : ResetTarget(target_id)

NumSpec == Init /\ [][NumNext]_vars

\* C11: for every target holding two or more observations, whatever their
\* spread, the confidence of the precision block of the estimate is a
\* number from 0 to 99.
C11_ConfidenceInRange ==
    \A t \in DOMAIN observations :
        Len(observations[t]) >= 2 =>
            LET c == calculate_position(observations, t, now)
                        .precision.confidence
            IN  ~c.nan /\ 0 <= c.v /\ c.v <= 9900

\* an estimate whose points lie more than 0.001 degree from the centroid on
\* average, so that the raw confidence is negative, has been returned
C11_Witness ==
    /\ last.op = "calculate_position"
    /\ ~IsError(last.ret)
    /\ ~last.ret.precision.meters.nan
    /\ last.ret.precision.meters.v > 100 * 111
    /\ last.ret.precision.confidence = Num(0)

\* what an observation says, its id and its time left aside
SightingOf(o) ==
    [drone_position |-> o.drone_position,
     target_bearing |-> o.target_bearing,
     target_elevation |-> o.target_elevation,
     confidence |-> o.confidence]

\* two lists hold the same observations, in whatever order
SameSightings(l1, l2) ==
    /\ Len(l1) = Len(l2)
    /\ \E p \in Permutations(1..Len(l1)) :
            \A i \in 1..Len(l1) : SightingOf(l1[i]) = SightingOf(l2[p[i]])

\* the numbers of an estimate: everything but the target and the time
EstimateNumbers(result) ==
    [latitude |-> result.position.latitude,
     longitude |-> result.position.longitude,
     precision |-> result.precision,
     observations_count |-> result.observations_count]

\* C12: two targets that were given the same observations, in whatever
\* order, get the same fused latitude and longitude, the same precision
\* values and the same observation count.
C12_OrderInvariant ==
    \A t, u \in DOMAIN observations :
        (Len(observations[t]) >= 2
            /\ SameSightings(observations[t], observations[u]))
        => EstimateNumbers(calculate_position(observations, t, now))
            = EstimateNumbers(calculate_position(observations, u, now))

\* two targets hold the same two observations of unequal confidence in
\* opposite orders, and the estimate of one has been computed
C12_Witness ==
    /\ last.op = "calculate_position"
    /\ ~IsError(last.ret)
    /\ \E t, u \in DOMAIN observations :
        /\ t /= u
        /\ last.target_id = t
        /\ Len(observations[t]) = 2
        /\ SameSightings(observations[t], observations[u])
        /\ SightingOf(observations[t][1]) /= SightingOf(observations[u][1])
        /\ observations[t][1].confidence /= observations[t][2].confidence
        /\ observations[t][1].confidence > 0
        /\ observations[t][2].confidence > 0

\* C13: when calculate_position is called for a target right after a call
\* for the same target that returned an estimate, with no add_observation
\* and no reset_target between the two, though time may have passed, it
\* returns the same latitude, longitude, precision and observation count.
C13_RecomputeSame ==
    [][\A t \in Ids :
        (/\ CalculatePosition(t)
         /\ last.op = "calculate_position"
         /\ last.target_id = t
         /\ ~IsError(last.ret))
        => (/\ ~IsError(last'.ret)
            /\ EstimateNumbers(last'.ret) = EstimateNumbers(last.ret))]_vars

\* an estimate has been returned and the clock has moved on since, so that
\* the next call computes at a later time
C13_Witness ==
    /\ last.op = "calculate_position"
    /\ ~IsError(last.ret)
    /\ last.ret.timestamp < now

\* the distance estimated for a stored observation
ObservationDistance(o) ==
    estimate_distance(o.drone_position.altitude, o.target_elevation)

\* C14: the distance estimated for an observation is the fixed 1000 m when
\* its elevation angle is zero or negative, and is never more than 10000 m
\* whatever the altitude and the elevation.
C14_DistanceFallbackAndCap ==
    \A t \in DOMAIN observations :
        \A i \in 1..Len(observations[t]) :
            LET o == observations[t][i]
            IN  /\ ObservationDistance(o) <= 10000
                /\ o.target_elevation <= 0 => ObservationDistance(o) = 1000

\* the estimate of a target has been computed from an observation at or
\* below the horizon and one whose altitude / sin(elevation) is over 10 km
C14_Witness ==
    /\ last.op = "calculate_position"
    /\ ~IsError(last.ret)
    /\ \E i, j \in 1..Len(observations[last.target_id]) :
        LET o == observations[last.target_id][i]
            f == observations[last.target_id][j]
        IN  /\ o.target_elevation <= 0
            /\ ObservationDistance(o) = 1000
            /\ f.target_elevation > 0
            /\ f.drone_position.altitude * 10000
                    > 10000 * Sin4(f.target_elevation)
            /\ ObservationDistance(f) = 10000

\* the weights sum to 1: the numerators add up to the common denominator
SumsToOne(w) ==
    /\ \A i \in 1..Len(w) : ~w[i].nan /\ w[i].den = w[1].den
    /\ SumSeq([i \in 1..Len(w) |-> w[i].num]) = w[1].den

\* C15: for every target holding two or more observations, whatever their
\* confidences, the normalised weights sum to 1 and the fused latitude and
\* longitude are the sums of the estimated points weighted by them.
C15_WeightedCentroid ==
    \A t \in DOMAIN observations :
        Len(observations[t]) >= 2 =>
            LET data == extract_observation_data(observations[t])
                points == calculate_estimated_points(data)
                w == normalized_weights(data.weights)
                n == Len(points)
                position == calculate_position(observations, t, now).position
            IN  /\ SumsToOne(w)
                /\ position.latitude =
                    Num(WeightedMean([i \in 1..n |-> points[i].latitude], w))
                /\ position.longitude =
                    Num(WeightedMean([i \in 1..n |-> points[i].longitude], w))

\* the list is Scenario A: the two sightings from PoseA, bearing 0 first
IsScenarioA(obs_list) ==
    /\ Len(obs_list) = 2
    /\ SightingOf(obs_list[1]) = SightingA1
    /\ SightingOf(obs_list[2]) = SightingA2

\* C16: for a target holding the two observations of Scenario A, the
\* estimated distance is 200 m for both, the estimated points are
\* (40.0018, -74.0) and (40.0, -73.99765) approximately, and the position
\* of the estimate is (40.0009, -73.99883) approximately: each angle within
\* half a unit of the fifth decimal, 5 micro-degrees.
C16_ScenarioA ==
    \A t \in DOMAIN observations :
        IsScenarioA(observations[t]) =>
            LET data == extract_observation_data(observations[t])
                points == calculate_estimated_points(data)
                position == calculate_position(observations, t, now).position
                Near(a, b) == a - b \in -5..5
            IN  /\ \A i \in 1..2 : ObservationDistance(observations[t][i]) = 200
                /\ Near(points[1].latitude, 40001800)
                /\ Near(points[1].longitude, -74000000)
                /\ Near(points[2].latitude, 40000000)
                /\ Near(points[2].longitude, -73997650)
                /\ ~position.latitude.nan /\ ~position.longitude.nan
                /\ Near(position.latitude.v, 40000900)
                /\ Near(position.longitude.v, -73998830)

\* the estimate of a target holding Scenario A has been returned
C16_Witness ==
    /\ last.op = "calculate_position"
    /\ ~IsError(last.ret)
    /\ IsScenarioA(observations[last.target_id])
    /\ last.ret.observations_count = 2
    /\ last.ret.position.latitude.v \in 40000895..40000905

(***************************************************************************)
(* GeoCorrelator.  Angles of a pose are in units of 1e-7 degree, pixel     *)
(* coordinates and altitudes (metres) are integers, confidences and        *)
(* thresholds are hundredths.  A telemetry is a record that may lack any   *)
(* of its keys, as the dict it models.  The satellite image is None or the *)
(* cached bytes; _perform_correlation only logs which.                     *)
(***************************************************************************)
\* the message of the missing-GPS error (its accent dropped)
MissingGps == "Datos GPS no disponibles en telemetria"

\* not d.get(key): the key is absent (None) or its number is zero
Falsy(d, key) == key \notin DOMAIN d \/ d[key] = 0

\* _extract_gps_data
extract_gps_data(drone_telemetry) ==
    LET gps == Get(drone_telemetry, "gps", <<>>)
    IN  IF Falsy(gps, "latitude") \/ Falsy(gps, "longitude")
        THEN [error |-> MissingGps]
        ELSE [latitude |-> gps.latitude,
              longitude |-> gps.longitude,
              altitude |-> Get(drone_telemetry, "altitude", 0)]

\* correlation_confidence = 0.85
CorrelationConfidence == 85

\* _perform_correlation; coverage_radius_meters in decimetres
perform_correlation(gps_data, ts) ==
    [original_coordinates |-> [latitude |-> gps_data.latitude,
                               longitude |-> gps_data.longitude],
     corrected_coordinates |-> [latitude |-> gps_data.latitude + 1000,
                                longitude |-> gps_data.longitude - 2000],
     confidence |-> CorrelationConfidence,
     coverage_radius_meters |-> gps_data.altitude * 5,
     timestamp |-> ts]

\* a slip: a confidence equal to the threshold counted as low
finalize_correlation_result_strict(result, confidence_threshold) ==
    IF result.confidence > confidence_threshold
    THEN [status |-> "high_confidence",
          message |-> "Correlacion exitosa"] @@ result
    ELSE [status |-> "low_confidence",
          message |-> "Correlacion debil, usar con precaucion"] @@ result

\* _finalize_correlation_result
finalize_correlation_result(result, confidence_threshold) ==
    IF result.confidence >= confidence_threshold
    THEN [status |-> "high_confidence",
          message |-> "Correlacion exitosa"] @@ result
    ELSE [status |-> "low_confidence",
          message |-> "Correlacion debil, usar con precaucion"] @@ result

\* correlate_drone_image
correlate_drone_image(drone_telemetry, confidence_threshold, ts) ==
    LET gps_data == extract_gps_data(drone_telemetry)
    IN  IF IsError(gps_data)
        THEN gps_data
        ELSE finalize_correlation_result(perform_correlation(gps_data, ts),
                                         confidence_threshold)

\* _extract_telemetry_data
extract_telemetry_data(drone_telemetry) ==
    LET gps == Get(drone_telemetry, "gps", <<>>)
        orientation == Get(drone_telemetry, "orientation",
                           [yaw |-> 0, pitch |-> 0, roll |-> 0])
    IN  [latitude |-> Get(gps, "latitude", 0),
         longitude |-> Get(gps, "longitude", 0),
         altitude |-> Get(drone_telemetry, "altitude", 100),
         yaw |-> Get(orientation, "yaw", 0),
         pitch |-> Get(orientation, "pitch", 0),
         roll |-> Get(orientation, "roll", 0)]

\* a slip: sine and cosine of the yaw exchanged
apply_rotation_swapped(x, y, yaw_degrees) ==
    <<x * Sin4(yaw_degrees) - y * Cos4(yaw_degrees),
      x * Cos4(yaw_degrees) + y * Sin4(yaw_degrees)>>

\* _apply_rotation: the rotated pixel, in ten-thousandths
apply_rotation(x, y, yaw_degrees) ==
    <<x * Cos4(yaw_degrees) - y * Sin4(yaw_degrees),
      x * Sin4(yaw_degrees) + y * Cos4(yaw_degrees)>>

\* _calculate_coordinate_offsets: rotated * scale_factor * 0.00001 degree,
\* with the rotated pixel in ten-thousandths and the scale in thousandths
calculate_coordinate_offsets(rotated_coords, scale_factor) ==
    <<(rotated_coords[2] * scale_factor) \div 100000,
      (rotated_coords[1] * scale_factor) \div 100000>>

\* _transform_pixel_to_coordinates; scale_factor = altitude / 1000 is the
\* altitude when counted in thousandths, accuracy_meters is in millimetres
transform_pixel_to_coordinates(pixel_coords, telemetry_data) ==
    LET scale_factor == telemetry_data.altitude
        rotated_coords == apply_rotation(pixel_coords[1], pixel_coords[2],
                                         telemetry_data.yaw)
        offsets == calculate_coordinate_offsets(rotated_coords, scale_factor)
    IN  [latitude |-> telemetry_data.latitude - offsets[1],
         longitude |-> telemetry_data.longitude + offsets[2],
         altitude |-> telemetry_data.altitude,
         accuracy_meters |-> scale_factor * 10]

\* calculate_real_coordinates
calculate_real_coordinates(pixel_coords, drone_telemetry) ==
    transform_pixel_to_coordinates(pixel_coords,
                                   extract_telemetry_data(drone_telemetry))

\* telemetries: complete, the service's simulated one, without gps, with a
\* latitude only, on the equator, on the prime meridian, turned 90 and 45
GpsNewYork == [latitude |-> 407128000, longitude |-> -740060000]
Telemetries ==
    {[gps |-> GpsNewYork, altitude |-> 100,
      orientation |-> [yaw |-> 0, pitch |-> 0, roll |-> 0]],
     [gps |-> [latitude |-> 404167750, longitude |-> -37037900]],
     [altitude |-> 100],
     [gps |-> [latitude |-> 407128000], altitude |-> 100],
     [gps |-> [latitude |-> 0, longitude |-> 100000000], altitude |-> 100],
     [gps |-> [latitude |-> 514779000, longitude |-> 0], altitude |-> 50],
     [gps |-> GpsNewYork, altitude |-> 100,
      orientation |-> [yaw |-> 90, pitch |-> 0, roll |-> 0]],
     [gps |-> GpsNewYork, altitude |-> 150,
      orientation |-> [yaw |-> 45]]}
Thresholds == {0, 60, 85, 86, 100}
Pixels == {<<0, 0>>, <<100, 50>>, <<-20, 10>>, <<7, 3>>}

Correlate(drone_telemetry, confidence_threshold) ==
    /\ last' = [op |-> "correlate_drone_image", target_id |-> "",
                drone_telemetry |-> drone_telemetry,
                confidence_threshold |-> confidence_threshold,
                ret |-> correlate_drone_image(drone_telemetry,
                                              confidence_threshold, now)]
    /\ UNCHANGED <<observations, now, manager_targets, reference, reference_images, drone, threads>>

CalculateRealCoordinates(pixel_coords, drone_telemetry) ==
    /\ last' = [op |-> "calculate_real_coordinates", target_id |-> "",
                pixel_coords |-> pixel_coords,
                drone_telemetry |-> drone_telemetry,
                ret |-> calculate_real_coordinates(pixel_coords,
                                                   drone_telemetry)]
    /\ UNCHANGED <<observations, now, manager_targets, reference, reference_images, drone, threads>>

CorrNext ==
    \/ Tick
    \/ \E drone_telemetry \in Telemetries, th \in Thresholds :
            Correlate(drone_telemetry, th)
    \/ \E pixel_coords \in Pixels, drone_telemetry \in Telemetries :
            CalculateRealCoordinates(pixel_coords, drone_telemetry)

CorrSpec == Init /\ [][CorrNext]_vars

\* the telemetry carries a latitude and a longitude
HasCoordinates(drone_telemetry) ==
    /\ "gps" \in DOMAIN drone_telemetry
    /\ "latitude" \in DOMAIN drone_telemetry.gps
    /\ "longitude" \in DOMAIN drone_telemetry.gps

\* C18: correlate_drone_image returns the missing-GPS error exactly when
\* the telemetry lacks a latitude or a longitude; a telemetry that carries
\* both, whatever their values, gets a correlation result.
C18_MissingGpsExactly ==
    last.op = "correlate_drone_image" =>
        /\ IsError(last.ret) <=> ~HasCoordinates(last.drone_telemetry)
        /\ IsError(last.ret) => last.ret.error = MissingGps

\* C19: a correlation result has status high_confidence when its confidence
\* is at least the threshold of the call, low_confidence when it is below,
\* and no other status.
C19_StatusByThreshold ==
    (last.op = "correlate_drone_image" /\ ~IsError(last.ret)) =>
        /\ last.ret.status \in {"high_confidence", "low_confidence"}
        /\ last.ret.status = "high_confidence"
            <=> last.ret.confidence >= last.confidence_threshold

\* a result of either status has been returned, one of them for a threshold
\* equal to the confidence
C19_Witness ==
    /\ last.op = "correlate_drone_image"
    /\ ~IsError(last.ret)
    /\ last.ret.confidence = last.confidence_threshold
    /\ last.ret.status = "high_confidence"

\* C20: with yaw 0, given or by default, calculate_real_coordinates returns
\* latitude = drone latitude - y * (altitude / 1000) * 1e-5, longitude =
\* drone longitude + x * (altitude / 1000) * 1e-5, the altitude of the pose
\* and accuracy_meters = (altitude / 1000) * 10.
C20_ZeroYawAxisAligned ==
    last.op = "calculate_real_coordinates" =>
        LET pose == extract_telemetry_data(last.drone_telemetry)
            x == last.pixel_coords[1]
            y == last.pixel_coords[2]
        IN  pose.yaw = 0 =>
                /\ last.ret.latitude = pose.latitude - (y * pose.altitude) \div 10
                /\ last.ret.longitude = pose.longitude + (x * pose.altitude) \div 10
                /\ last.ret.altitude = pose.altitude
                /\ last.ret.accuracy_meters = pose.altitude * 10

\* a pixel off both axes has been located from a pose of yaw 0
C20_Witness ==
    /\ last.op = "calculate_real_coordinates"
    /\ extract_telemetry_data(last.drone_telemetry).yaw = 0
    /\ last.pixel_coords[1] /= 0
    /\ last.pixel_coords[2] /= 0
    /\ last.ret.latitude /= extract_telemetry_data(last.drone_telemetry).latitude
    /\ last.ret.longitude /= extract_telemetry_data(last.drone_telemetry).longitude

(***************************************************************************)
(* GeoService over collaborators that may raise.  Every public operation   *)
(* runs its body inside try / except Exception; the body either returns a  *)
(* dict or raises, and a collaborator that raises leaves no effect of its  *)
(* own.  main.py builds the real correlator, so detect_changes takes the   *)
(* branch of _detect_changes_real.                                         *)
(***************************************************************************)
Raise(message) == [raise |-> message]
Raised(outcome) == "raise" \in DOMAIN outcome

\* a slip: the exception is let through
except_exception_reraise(outcome) == outcome

\* except Exception as e: return {'success': False, 'error': str(e)}
except_exception(outcome) ==
    IF Raised(outcome)
    THEN [success |-> FALSE, error |-> outcome.raise]
    ELSE outcome

\* _get_mock_telemetry
get_mock_telemetry(ts) ==
    [gps |-> [latitude |-> 404167750, longitude |-> -37037900],
     timestamp |-> ts]

\* GeolocationManager.add_reference_image: the id it makes from the clock
reference_id(ts) == <<"ref", ts>>

\* _detect_changes_real, from what the correlator returned;
\* change_percentage in hundredths of a percent
detect_changes_real(correlation_result) ==
    IF IsError(correlation_result)
    THEN [success |-> FALSE, error |-> correlation_result.error]
    ELSE [success |-> TRUE,
          has_changes |-> correlation_result.confidence < 80,
          change_percentage |-> (100 - correlation_result.confidence) * 100,
          correlation_confidence |-> correlation_result.confidence,
          analysis_details |-> correlation_result]

\* what a collaborator does when called
Behaviours == {"returns", "raises"}

\* add_reference_image: geo_manager.add_reference_image returns or raises
SvcAddReferenceImage(b) ==
    /\ IF b = "raises"
       THEN /\ last' = [op |-> "svc_add_reference_image", target_id |-> "",
                        ret |-> except_exception(Raise("Telemetry error"))]
            /\ UNCHANGED <<reference, reference_images>>
       ELSE /\ reference' = reference_id(now)
            /\ reference_images' = reference_images \cup {reference_id(now)}
            /\ last' = [op |-> "svc_add_reference_image", target_id |-> "",
                        ret |-> except_exception(
                                    [success |-> TRUE,
                                     reference_id |-> reference_id(now)])]
    /\ UNCHANGED <<observations, now, manager_targets, drone, threads>>

\* detect_changes: the correlator returns its result, returns an error
\* dict, or raises
\* the test of detect_changes on geo_manager.current_reference_image
has_reference_always(current_reference_image) == TRUE

has_reference(current_reference_image) == current_reference_image # <<>>

SvcDetectChanges(b) ==
    /\ last' = [op |-> "svc_detect_changes", target_id |-> "",
                consulted |-> has_reference(reference),
                ret |-> except_exception(
                    IF ~has_reference(reference)
                    THEN [success |-> FALSE,
                          error |-> "No hay imagen de referencia establecida"]
                    ELSE IF b = "raises"
                    THEN Raise("Detection error")
                    ELSE IF b = "error"
                    THEN detect_changes_real([error |-> MissingGps])
                    ELSE detect_changes_real(
                            correlate_drone_image(get_mock_telemetry(now),
                                                  60, now)))]
    /\ UNCHANGED <<observations, now, manager_targets, reference, reference_images, drone, threads>>

\* create_target when geo_triangulation.create_target raises
SvcCreateTargetRaises ==
    /\ last' = [op |-> "svc_create_target", target_id |-> "",
                ret |-> except_exception(Raise("Target creation error"))]
    /\ UNCHANGED <<observations, now, manager_targets, reference, reference_images, drone, threads>>

\* calculate_position when geo_triangulation.calculate_position raises,
\* after _add_automatic_observations did its work
SvcCalculatePositionRaises(target_id) ==
    /\ \E ts2 \in Later(now) :
        /\ observations' =
            calculate_position_real_store(observations, target_id, now, ts2)
        /\ now' = ts2
    /\ last' = [op |-> "svc_calculate_position", target_id |-> target_id,
                ret |-> except_exception(Raise("Calc error"))]
    /\ UNCHANGED <<manager_targets, reference, reference_images, drone, threads>>

\* add_observation when float() of a field or the engine's add_observation
\* raises
SvcAddObservationRaises(params) ==
    /\ last' = [op |-> "svc_add_observation", target_id |-> "",
                params |-> params,
                ret |-> except_exception(
                            IF ParamsComplete(params)
                            THEN Raise("could not convert string to float")
                            ELSE Raise("KeyError"))]
    /\ UNCHANGED <<observations, now, manager_targets, reference, reference_images, drone, threads>>

\* get_targets_status when geo_triangulation.get_all_targets raises
SvcGetTargetsStatusRaises ==
    /\ last' = [op |-> "svc_get_targets_status", target_id |-> "",
                ret |-> except_exception(Raise("Status error"))]
    /\ UNCHANGED <<observations, now, manager_targets, reference, reference_images, drone, threads>>

\* the requests made here all concern one target
FaultParams ==
    {[target_id |-> "target_0000000a", target_bearing |-> 90],
     [target_id |-> "target_0000000a"]}

FaultNext ==
    \/ Tick
    \/ \E b \in Behaviours : SvcAddReferenceImage(b)
    \/ \E b \in Behaviours \cup {"error"} : SvcDetectChanges(b)
    \/ SvcCreateTarget
    \/ SvcCreateTargetRaises
    \/ \E params \in FaultParams : SvcAddObservation(params)
    \/ \E params \in FaultParams : SvcAddObservationRaises(params)
    \/ \E target_id \in {"target_0000000a", ""} :
            SvcCalculatePosition(target_id)
    \/ SvcCalculatePositionRaises("target_0000000a")
    \/ SvcGetTargetsStatus
    \/ SvcGetTargetsStatusRaises

FaultSpec == Init /\ [][FaultNext]_vars

ServiceOperations ==
    {"svc_add_reference_image", "svc_detect_changes", "svc_create_target",
     "svc_calculate_position", "svc_add_observation",
     "svc_get_targets_status"}

\* C17: whatever the collaborators did, raising included, the return value
\* of each of the six GeoService operations is a result with a boolean
\* 'success', with an 'error' when success is false, and never an exception.
C17_StructuredResult ==
    last.op \in ServiceOperations =>
        /\ ~Raised(last.ret)
        /\ "success" \in DOMAIN last.ret
        /\ last.ret.success \in BOOLEAN
        /\ last.ret.success = FALSE => "error" \in DOMAIN last.ret

\* detect_changes has answered a raising correlator, with a reference set
C17_Witness ==
    /\ last.op = "svc_detect_changes"
    /\ reference /= <<>>
    /\ last.ret = [success |-> FALSE, error |-> "Detection error"]

\* what a request of 'add observation' must do to the store and answer
AddObservationAnswer(params) ==
    IF Get(params, "target_id", "") /= "" /\ "target_bearing" \in DOMAIN params
    THEN LET t == params.target_id
             before == LenOrZero(observations, t)
             after == observations'[t]
         IN  /\ DOMAIN observations' = DOMAIN observations \cup {t}
             /\ \A u \in DOMAIN observations \ {t} :
                    observations'[u] = observations[u]
             /\ Len(after) = before + 1
             /\ \A i \in 1..before : after[i] = observations[t][i]
             /\ after[before + 1].target_bearing = params.target_bearing
             /\ after[before + 1].target_elevation =
                    (IF "target_elevation" \in DOMAIN params
                     THEN params.target_elevation ELSE 0)
             /\ after[before + 1].confidence =
                    (IF "confidence" \in DOMAIN params
                     THEN params.confidence ELSE 100)
             /\ last'.ret.success = TRUE
             /\ last'.ret.total_observations = Len(after)
             /\ last'.ret.can_calculate = (Len(after) >= 2)
    ELSE /\ observations' = observations
         /\ last'.ret.success = FALSE
         /\ "error" \in DOMAIN last'.ret

C22_StatusListing ==
    LET st == get_targets_status(observations)
    IN  /\ st.success = TRUE
        /\ {e.target_id : e \in st.targets} = get_all_targets(observations)
        /\ \A t \in get_all_targets(observations) :
                Cardinality({e \in st.targets : e.target_id = t}) = 1
        /\ \A e \in st.targets :
            LET obs_list == observations[e.target_id]
            IN  /\ e.observations_count = Len(obs_list)
                /\ e.can_calculate = (e.observations_count >= 2)
                /\ e.last_observation =
                    (IF obs_list = <<>> THEN <<>>
                     ELSE <<obs_list[Len(obs_list)].timestamp>>)
        /\ st.total_targets = Cardinality(st.targets)
        /\ last.op = "svc_get_targets_status" => last.ret = st

\* the listing has been returned for an empty target next to a target
\* whose first and last observations were made at different times
C22_Witness ==
    /\ last.op = "svc_get_targets_status"
    /\ last.ret.total_targets = 2
    /\ \E e, f \in last.ret.targets :
        /\ e.observations_count = 0
        /\ e.last_observation = <<>>
        /\ f.can_calculate = TRUE
        /\ observations[f.target_id][1].timestamp
            < observations[f.target_id][Len(observations[f.target_id])].timestamp
        /\ f.last_observation =
            <<observations[f.target_id][Len(observations[f.target_id])].timestamp>>

(***************************************************************************)
(* GeolocationManager on its own.  Its ids are made of the wall clock read *)
(* to the second; here a tick of the clock is a second, and the calls made *)
(* between two ticks fall within one second.  last keeps the ids returned  *)
(* so far, in order.                                                       *)
(***************************************************************************)
MaxCalls == 4

\* f"target_{datetime.now().strftime('%Y%m%d%H%M%S')}"
manager_target_id(ts) == <<"target", ts>>

\* the ids returned so far by the calls of one kind
Returned(kind) == IF kind \in DOMAIN last THEN last[kind] ELSE <<>>

MgrCreateTarget ==
    /\ Len(Returned("created")) + Len(Returned("referenced")) < MaxCalls
    /\ manager_targets' = manager_targets \cup {manager_target_id(now)}
    /\ last' = [op |-> "mgr_create_target", target_id |-> "",
                ret |-> manager_target_id(now),
                created |-> Append(Returned("created"),
                                   manager_target_id(now)),
                referenced |-> Returned("referenced")]
    /\ UNCHANGED <<observations, now, reference, reference_images, drone, threads>>

MgrAddReferenceImage ==
    /\ Len(Returned("created")) + Len(Returned("referenced")) < MaxCalls
    /\ reference_images' = reference_images \cup {reference_id(now)}
    /\ reference' = reference_id(now)
    /\ last' = [op |-> "mgr_add_reference_image", target_id |-> "",
                ret |-> reference_id(now),
                created |-> Returned("created"),
                referenced |-> Append(Returned("referenced"),
                                      reference_id(now))]
    /\ UNCHANGED <<observations, now, manager_targets, drone, threads>>

MgrNext ==
    \/ Tick
    \/ MgrCreateTarget
    \/ MgrAddReferenceImage

MgrSpec == Init /\ [][MgrNext]_vars

\* the elements of a sequence are pairwise different
Distinct(s) == \A i, j \in 1..Len(s) : i /= j => s[i] /= s[j]

\* C23: the target ids returned by the create_target calls made so far are
\* pairwise different and targets has one entry per call; the reference
\* ids returned by the add_reference_image calls are pairwise different
\* and reference_images has one entry per call; however close the calls.
C23_DistinctManagerIds ==
    /\ Distinct(Returned("created"))
    /\ Cardinality(manager_targets) = Len(Returned("created"))
    /\ Distinct(Returned("referenced"))
    /\ Cardinality(reference_images) = Len(Returned("referenced"))

(***************************************************************************)
(* DroneService over the simulated ParrotAnafiController (no Olympe SDK).  *)
(* Altitudes are in tenths of a metre: the 120.0 m limit is 1200.          *)
(***************************************************************************)
Altitudes == {-100, 0, 5, 500, 1200, 1201, 5000}

\* a slip: the limit itself refused
validate_altitude_below(altitude) == 0 < altitude /\ altitude < 1200

\* _validate_altitude: 0 < altitude <= 120.0
validate_altitude(altitude) == 0 < altitude /\ altitude <= 1200

\* the message of the refusal
InvalidAltitude(altitude) ==
    <<"Altitud invalida", altitude, "Maximo permitido: 120m">>

\* ParrotAnafiController.take_off: what it returns; an unconnected drone
\* raises ConnectionError inside, which it turns into False
controller_take_off_result(d, altitude) == d.connected

\* ParrotAnafiController.take_off: the controller it leaves
controller_take_off(d, altitude) ==
    IF d.connected
    THEN [d EXCEPT !.is_flying = TRUE, !.altitude = altitude,
                   !.take_off_calls = @ + 1]
    ELSE [d EXCEPT !.take_off_calls = @ + 1]

\* DroneService.connect, the controller connecting in simulation
DroneConnect ==
    /\ drone' = [drone EXCEPT !.connected = TRUE]
    /\ last' = [op |-> "connect", target_id |-> "",
                ret |-> [success |-> TRUE]]
    /\ UNCHANGED <<observations, now, manager_targets, reference, reference_images, threads>>

\* DroneService.disconnect
DroneDisconnect ==
    /\ drone' = [drone EXCEPT !.connected = FALSE]
    /\ last' = [op |-> "disconnect", target_id |-> "",
                ret |-> [success |-> TRUE]]
    /\ UNCHANGED <<observations, now, manager_targets, reference, reference_images, threads>>

\* DroneService.takeoff
DroneTakeoff(altitude) ==
    /\ drone.take_off_calls < MaxCalls
    /\ IF ~validate_altitude(altitude)
       THEN /\ drone' = drone
            /\ last' = [op |-> "takeoff", target_id |-> "",
                        altitude |-> altitude,
                        ret |-> [success |-> FALSE,
                                 error |-> InvalidAltitude(altitude)]]
       ELSE /\ drone' = controller_take_off(drone, altitude)
            /\ last' = [op |-> "takeoff", target_id |-> "",
                        altitude |-> altitude,
                        ret |-> [success |->
                                    controller_take_off_result(drone,
                                                               altitude)]]
    /\ UNCHANGED <<observations, now, manager_targets, reference, reference_images, threads>>

DroneNext ==
    \/ DroneConnect
    \/ DroneDisconnect
    \/ \E altitude \in Altitudes : DroneTakeoff(altitude)

DroneSpec == Init /\ [][DroneNext]_vars

\* C24: takeoff(altitude) makes exactly one take_off call on the controller,
\* with that altitude, when 0 < altitude <= 120; for any other altitude the
\* controller receives no call and is left as it was, and the result is a
\* failure whose message names the 120 m limit.
C24_TakeoffAltitudeLimit ==
    [][\A altitude \in Altitudes :
        DroneTakeoff(altitude) =>
            IF 0 < altitude /\ altitude <= 1200
            THEN /\ drone'.take_off_calls = drone.take_off_calls + 1
                 /\ drone.connected => drone'.altitude = altitude
            ELSE /\ drone' = drone
                 /\ last'.ret.success = FALSE
                 /\ last'.ret.error[3] = "Maximo permitido: 120m"]_vars

\* a takeoff to exactly 120 m has been forwarded and flown
C24_Witness ==
    /\ last.op = "takeoff"
    /\ last.altitude = 1200
    /\ last.ret.success = TRUE
    /\ drone.is_flying
    /\ drone.altitude = 1200
    /\ drone.take_off_calls >= 1

(***************************************************************************)
(* calculate_position, add_observation and reset_target of one target from *)
(* several request threads, a statement per step, no lock.  The store      *)
(* starts with the two observations of Scenario A.  Subscripting the dict  *)
(* with a key another thread has deleted raises KeyError.  The list a      *)
(* calculate_position has fetched is taken as it stands at the fetch.      *)
(*   vtest    if target_id not in self.observations                        *)
(*   vlen     observation_count = len(self.observations[target_id])        *)
(*   fetch    observations = self.observations[target_id]                  *)
(*   compute  the four steps and _build_result                             *)
(*   rtest    if target_id in self.observations                            *)
(*   rdel     del self.observations[target_id]                             *)
(***************************************************************************)
RaceTarget == "target_0000000a"

RaceInit ==
    /\ observations =
        add_observation(add_observation(<<>>, RaceTarget, SightingA1, 0),
                        RaceTarget, SightingA2, 0)
    /\ now = 0
    /\ last = [op |-> "init", target_id |-> "", ret |-> FALSE]
    /\ manager_targets = {}
    /\ reference = <<>>
    /\ reference_images = {}
    /\ drone = [connected |-> FALSE, is_flying |-> FALSE, altitude |-> 0,
                take_off_calls |-> 0]
    /\ threads = NoThreads

CallCalculate(th) ==
    /\ threads[th].pc = "idle"
    /\ threads' = [threads EXCEPT ![th] =
            [pc |-> "vtest", op |-> "calculate_position",
             target_id |-> RaceTarget]]
    /\ UNCHANGED <<observations, now, last, manager_targets, reference, reference_images, drone>>

CallReset(th) ==
    /\ threads[th].pc = "idle"
    /\ threads' = [threads EXCEPT ![th] =
            [pc |-> "rtest", op |-> "reset_target",
             target_id |-> RaceTarget]]
    /\ UNCHANGED <<observations, now, last, manager_targets, reference, reference_images, drone>>

StmtValidateTest(th) ==
    /\ threads[th].pc = "vtest"
    /\ threads' = [threads EXCEPT ![th] =
            IF threads[th].target_id \notin DOMAIN observations
            THEN [pc |-> "done", op |-> "calculate_position",
                  target_id |-> threads[th].target_id,
                  ret |-> NotFound(threads[th].target_id)]
            ELSE [pc |-> "vlen", op |-> "calculate_position",
                  target_id |-> threads[th].target_id]]
    /\ UNCHANGED <<observations, now, last, manager_targets, reference, reference_images, drone>>

StmtValidateLen(th) ==
    /\ threads[th].pc = "vlen"
    /\ threads[th].target_id \in DOMAIN observations
    /\ LET observation_count == Len(observations[threads[th].target_id])
       IN  threads' = [threads EXCEPT ![th] =
                IF observation_count < 2
                THEN [pc |-> "done", op |-> "calculate_position",
                      target_id |-> threads[th].target_id,
                      ret |-> InsufficientData(observation_count)]
                ELSE [pc |-> "fetch", op |-> "calculate_position",
                      target_id |-> threads[th].target_id]]
    /\ UNCHANGED <<observations, now, last, manager_targets, reference, reference_images, drone>>

StmtFetch(th) ==
    /\ threads[th].pc = "fetch"
    /\ threads[th].target_id \in DOMAIN observations
    /\ threads' = [threads EXCEPT ![th] =
            [pc |-> "compute", op |-> "calculate_position",
             target_id |-> threads[th].target_id,
             fetched |-> observations[threads[th].target_id]]]
    /\ UNCHANGED <<observations, now, last, manager_targets, reference, reference_images, drone>>

\* np.average raises ZeroDivisionError on an empty list of weights
StmtCompute(th) ==
    /\ threads[th].pc = "compute"
    /\ threads' = [threads EXCEPT ![th] =
            IF threads[th].fetched = <<>>
            THEN [pc |-> "raised", op |-> "calculate_position",
                  target_id |-> threads[th].target_id,
                  exception |-> "ZeroDivisionError"]
            ELSE [pc |-> "done", op |-> "calculate_position",
                  target_id |-> threads[th].target_id,
                  fetched |-> threads[th].fetched,
                  ret |-> fuse_observations(threads[th].fetched,
                                            threads[th].target_id, now)]]
    /\ UNCHANGED <<observations, now, last, manager_targets, reference, reference_images, drone>>

StmtResetTest(th) ==
    /\ threads[th].pc = "rtest"
    /\ threads' = [threads EXCEPT ![th] =
            IF threads[th].target_id \in DOMAIN observations
            THEN [pc |-> "rdel", op |-> "reset_target",
                  target_id |-> threads[th].target_id]
            ELSE [pc |-> "done", op |-> "reset_target",
                  target_id |-> threads[th].target_id, ret |-> FALSE]]
    /\ UNCHANGED <<observations, now, last, manager_targets, reference, reference_images, drone>>

StmtResetDel(th) ==
    /\ threads[th].pc = "rdel"
    /\ threads[th].target_id \in DOMAIN observations
    /\ observations' = reset_target(observations, threads[th].target_id)
    /\ threads' = [threads EXCEPT ![th] =
            [pc |-> "done", op |-> "reset_target",
             target_id |-> threads[th].target_id, ret |-> TRUE]]
    /\ UNCHANGED <<now, last, manager_targets, reference, reference_images, drone>>

\* self.observations[target_id] when another thread has deleted the key
StmtKeyError(th) ==
    /\ threads[th].pc \in {"len", "append", "vlen", "fetch", "rdel"}
    /\ threads[th].target_id \notin DOMAIN observations
    /\ threads' = [threads EXCEPT ![th] =
            [pc |-> "raised", target_id |-> threads[th].target_id,
             at |-> threads[th].pc, exception |-> "KeyError"]]
    /\ UNCHANGED <<observations, now, last, manager_targets, reference, reference_images, drone>>

RaceNext ==
    \/ \E th \in Threads : Call(th, RaceTarget, SightingA1)
    \/ \E th \in Threads : CallCalculate(th)
    \/ \E th \in Threads : CallReset(th)
    \/ \E th \in Threads : StmtTest(th)
    \/ \E th \in Threads : StmtCreate(th)
    \/ \E th \in Threads : StmtLen(th)
    \/ \E th \in Threads : StmtAppend(th)
    \/ \E th \in Threads : StmtReturn(th)
    \/ \E th \in Threads : StmtValidateTest(th)
    \/ \E th \in Threads : StmtValidateLen(th)
    \/ \E th \in Threads : StmtFetch(th)
    \/ \E th \in Threads : StmtCompute(th)
    \/ \E th \in Threads : StmtResetTest(th)
    \/ \E th \in Threads : StmtResetDel(th)
    \/ \E th \in Threads : StmtKeyError(th)

RaceSpec == RaceInit /\ [][RaceNext]_vars

\* C25: with reset_target running between the statements of
\* calculate_position and add_observation of the same target, no call
\* raises; a finished calculate_position has returned NotFound,
\* InsufficientData or the estimate of a complete list of two or more
\* observations; and the observation a finished add_observation reports is
\* in the target's list unless a reset has deleted the target.
C25_SafeAgainstReset ==
    \A th \in Threads :
        /\ threads[th].pc /= "raised"
        /\ (threads[th].pc = "done" /\ "fetched" \in DOMAIN threads[th]) =>
                /\ Len(threads[th].fetched) >= 2
                /\ threads[th].ret.observations_count
                        = Len(threads[th].fetched)
        /\ (threads[th].pc = "done" /\ "stored" \in DOMAIN threads[th]) =>
                \/ /\ threads[th].target_id \in DOMAIN observations
                   /\ \E i \in 1..Len(observations[threads[th].target_id]) :
                        observations[threads[th].target_id][i]
                            = threads[th].stored
                \/ \E r \in Threads :
                        /\ threads[r].pc = "done"
                        /\ threads[r].ret = TRUE


(***************************************************************************)
(* The pose record handed to add_observation.  add_observation stores the  *)
(* dict object it receives under "drone_position", without copying it, so  *)
(* the caller that built the dict still holds the very record the          *)
(* observation holds.  AliasSpec adds the caller's later assignments to    *)
(* that record to the engine operations.                                   *)
(***************************************************************************)
CallerPoses == {PoseA, PoseHigh}

\* the caller assigns to the dict it passed for observation number index of
\* target_id (pose["altitude"] = ...): the stored observation holds the same
\* object
CallerModifiesPose(target_id, index, pose) ==
    /\ target_id \in DOMAIN observations
    /\ index \in 1..Len(observations[target_id])
    /\ observations[target_id][index].drone_position # pose
    /\ observations' =
            [observations EXCEPT ![target_id][index].drone_position = pose]
    /\ last' = [op |-> "caller_modifies_pose", target_id |-> target_id,
                ret |-> index]
    /\ UNCHANGED <<now, manager_targets, reference, reference_images, drone, threads>>

AliasNext ==
    \/ \E target_id \in Ids, s \in Sightings : AddObservation(target_id, s)
    \/ \E target_id \in Ids : CalculatePosition(target_id)
    \/ \E target_id \in Ids : ResetTarget(target_id)
    \/ CreateTarget
    \/ \E target_id \in Ids, index \in 1..MaxObs, pose \in CallerPoses :
            CallerModifiesPose(target_id, index, pose)

AliasSpec == Init /\ [][AliasNext]_vars

\* C26: an observation is immutable once created: as long as it is in its
\* target's list, its id, pose, bearing, elevation, confidence and timestamp
\* stay what add_observation stored, whatever engine operation follows and
\* even if the caller afterwards modifies the pose record it passed in.
C26_ObservationImmutable ==
    [][\A u \in DOMAIN observations \cap DOMAIN observations' :
        \A i \in 1..Len(observations[u]) :
            i <= Len(observations'[u]) =>
                observations'[u][i] = observations[u][i]]_vars


\* C27: calculate_position has no effect on the engine state: the set of
\* targets and every observation list are the same after the call as before
\* it, whether it returns an estimate or an error, and no estimate is kept:
\* what it returns is computed from the store as it stands.
C27_CalculatePositionReadOnly ==
    [][\A t \in Ids :
        CalculatePosition(t) =>
            /\ get_all_targets(observations') = get_all_targets(observations)
            /\ \A u \in get_all_targets(observations) :
                    observations'[u] = observations[u]
            /\ last'.ret = calculate_position(observations', t, now')]_vars

C27_Witness ==
    /\ last.op = "calculate_position"
    /\ ~IsError(last.ret)
    /\ last.target_id \in DOMAIN observations
    /\ Len(observations[last.target_id]) >= 2


(***************************************************************************)
(* calculate_position over whatever add_observation was handed.            *)
(* add_observation stores its arguments unexamined; the first use of the   *)
(* pose's keys is pos["latitude"], pos["longitude"], pos["altitude"] in    *)
(* _extract_observation_data, which calculate_position calls outside any   *)
(* try block.                                                              *)
(***************************************************************************)
PoseKeys == {"latitude", "longitude", "altitude"}
PoseNoAltitude == [latitude |-> 40000000, longitude |-> -74000000]
SightingNoAltitude == [drone_position |-> PoseNoAltitude, target_bearing |-> 0,
                       target_elevation |-> 30, confidence |-> 100]
HandedSightings == Sightings \cup {SightingNoAltitude}

\* the subscripts of pos in the loop of _extract_observation_data
extract_observation_data_raises(obs_list) ==
    \E i \in 1..Len(obs_list) :
        ~(PoseKeys \subseteq DOMAIN obs_list[i].drone_position)

\* how a call of calculate_position ends: its return value, or the exception
\* that leaves it
calculate_position_outcome(obs, target_id, ts) ==
    LET validation_result == validate_observations(obs, target_id)
    IN  IF IsError(validation_result)
        THEN validation_result
        ELSE IF extract_observation_data_raises(obs[target_id])
             THEN Raise("KeyError")
             ELSE fuse_observations(obs[target_id], target_id, ts)

CalculatePositionOutcome(target_id) ==
    /\ observations' = calculate_position_store(observations, target_id)
    /\ last' = [op |-> "calculate_position", target_id |-> target_id,
                ret |-> calculate_position_outcome(observations, target_id, now)]
    /\ UNCHANGED <<now, manager_targets, reference, reference_images, drone, threads>>

HandedNext ==
    \/ \E target_id \in Ids, s \in HandedSightings :
            AddObservation(target_id, s)
    \/ \E target_id \in Ids : CalculatePositionOutcome(target_id)
    \/ \E target_id \in Ids : ResetTarget(target_id)
    \/ CreateTarget

HandedSpec == Init /\ [][HandedNext]_vars

\* C28: in every store state reached through create_target, add_observation
\* (with whatever pose, bearing, elevation and confidence it is handed) and
\* reset_target, calculate_position returns a position estimate or a
\* structured error value; it never ends with an exception.
C28_CalculatePositionNeverRaises ==
    last.op = "calculate_position" =>
        /\ ~Raised(last.ret)
        /\ \/ IsError(last.ret)
           \/ "position" \in DOMAIN last.ret


\* C29: detect_changes of the service returns the failure 'no reference
\* image' in every state in which no add_reference_image call has yet
\* succeeded, and does not consult the correlator then; and the manager's
\* current reference is the id returned by the most recent successful
\* add_reference_image: such a call sets it to the id it returns, and no
\* other step changes it.
C29_ReferenceBeforeDetection ==
    /\ [](last.op = "svc_detect_changes" /\ reference_images = {} =>
            /\ last.ret = [success |-> FALSE,
                           error |-> "No hay imagen de referencia establecida"]
            /\ ~last.consulted)
    /\ [][IF last'.op = "svc_add_reference_image" /\ last'.ret.success
             /\ (\E b \in Behaviours : SvcAddReferenceImage(b))
          THEN /\ reference' = last'.ret.reference_id
               /\ reference' \in reference_images'
          ELSE reference' = reference]_vars

C29_Witness ==
    /\ last.op = "svc_detect_changes"
    /\ reference_images = {}
    /\ ~last.ret.success
    /\ now > 0


\* C30: in every position estimate returned by calculate_position the
\* precision block is ordered and non-negative:
\* 0 <= meters <= max_deviation_meters, the mean and the maximum of the
\* distances from the estimated points to the fused centroid, in metres.
C30_PrecisionOrdered ==
    \A t \in DOMAIN observations :
        Len(observations[t]) >= 2 =>
            LET precision == calculate_position(observations, t, now).precision
            IN  /\ ~Lt(precision.meters, Num(0))
                /\ ~precision.meters.nan
                /\ ~precision.max_deviation_meters.nan
                /\ ~Lt(precision.max_deviation_meters, precision.meters)

====
